---------------------------- MODULE Spec2Model ----------------------------
(***************************************************************************)
(* A model of nt/speech_enhancement/beamformer.py: the weighted PSD        *)
(* estimator, the PCA / MVDR / GEV vector solvers, the post-processors and *)
(* the three mask-based pipelines.                                         *)
(*                                                                         *)
(* Numbers are exact: a complex number (a + b*i)/d is the triple           *)
(* <<a, b, d>> in lowest terms with d > 0; a real number has b = 0.        *)
(* An n-dimensional array is a record [shape, data, dtype] whose data maps *)
(* every index tuple (1-based) to a number.  Axis arguments keep the       *)
(* source's convention (negative axis numbers counted from the end).       *)
(***************************************************************************)
EXTENDS Integers, Sequences, FiniteSets, TLC

VARIABLES
    observation,   \* the caller's observation array, shape (bins, sensors, frames)
    mask,          \* the caller's mask object handed to the PSD estimator, or None
    source_dim,    \* the source_dim argument the caller uses with that mask
    noise_mask,    \* the caller's noise mask handed to the pipelines, (frames, bins), or None
    target_mask,   \* the caller's target mask handed to the pipelines, (frames, bins), or None
    atf_vector,    \* the caller's ATF array handed to get_mvdr_vector
    target_psd_matrix, \* the caller's target PSD handed to get_gev_vector
    noise_psd_matrix,  \* the caller's noise PSD handed to get_mvdr_vector / get_gev_vector
    eig_fault,     \* the bins in which scipy's general eigensolver fails to converge
    last           \* the last call: its name, options, the masks given, outcome and steps

vars == <<observation, mask, source_dim, noise_mask, target_mask, atf_vector,
          target_psd_matrix, noise_psd_matrix, eig_fault, last>>

None == [none |-> TRUE]

(***************************************************************************)
(* Bounds of the model.                                                    *)
(***************************************************************************)
Bins == 2
Sensors == 2
Frames == 2
Sources == 2
\* the largest number of batch axes of an observation
MaxBatchRank == 2
\* the largest numerator or denominator handed to an exact solver
MaxMagnitude == 1000

(***************************************************************************)
(* Program constants: the floor 1e-10 of the mask normalisation, the lower *)
(* clip bound 1e-6 of a derived mask and the floor 1e-6 of the old mask    *)
(* normalisation, as negative powers of ten.                               *)
(***************************************************************************)
PsdFloorExp == 10
ClipFloorExp == 6
OldFloorExp == 6

(***************************************************************************)
(* Exact complex rational arithmetic.                                      *)
(***************************************************************************)
Abs(n) == IF n < 0 THEN -n ELSE n

RECURSIVE GCD(_, _)
GCD(m, n) == IF n = 0 THEN m ELSE GCD(n, m % n)

Gcd3(a, b, d) == GCD(GCD(Abs(a), Abs(b)), Abs(d))

Reduce(a, b, d, s, g) == <<(s * a) \div g, (s * b) \div g, (s * d) \div g>>

\* (a + b*i)/d in lowest terms, d > 0
Norm(a, b, d) == Reduce(a, b, d, IF d < 0 THEN -1 ELSE 1, Gcd3(a, b, d))

Zero == <<0, 0, 1>>
One == <<1, 0, 1>>
Int2C(n) == <<n, 0, 1>>
Rat(n, d) == Norm(n, 0, d)
Cpx(a, b) == <<a, b, 1>>

IsZero(x) == x[1] = 0 /\ x[2] = 0
IsReal(x) == x[2] = 0

AddScaled(x, y, mx, my) ==
    Norm(x[1] * mx + y[1] * my, x[2] * mx + y[2] * my, x[3] * mx)

\* over the least common denominator
Add(x, y) == AddScaled(x, y, y[3] \div GCD(x[3], y[3]), x[3] \div GCD(x[3], y[3]))

Neg(x) == <<-x[1], -x[2], x[3]>>
Sub(x, y) == Add(x, Neg(y))
Conj(x) == <<x[1], -x[2], x[3]>>

MulParts(xa, xb, xd, ya, yb, yd) ==
    Norm(xa * ya - xb * yb, xa * yb + xb * ya, xd * yd)

MulReduced(x, y, gx, gy) ==
    MulParts(x[1] \div gx, x[2] \div gx, x[3] \div gy,
             y[1] \div gy, y[2] \div gy, y[3] \div gx)

\* the common factors of one numerator and the other denominator cancelled first
Mul(x, y) ==
    IF IsZero(x) \/ IsZero(y) THEN Zero
    ELSE MulReduced(x, y, Gcd3(x[1], x[2], y[3]), Gcd3(y[1], y[2], x[3]))

\* 1/x for x # 0
InvParts(a, b, d, g) == Norm(d * a, -(d * b), g * (a * a + b * b))

InvReduced(x, g) == InvParts(x[1] \div g, x[2] \div g, x[3], g)

Inv(x) == InvReduced(x, GCD(Abs(x[1]), Abs(x[2])))

Div(x, y) == Mul(x, Inv(y))

\* order of two real numbers
Less(x, y) == x[1] * y[3] < y[1] * x[3]

\* x >= 10^(-k) for a real x, without forming 10^k
RECURSIVE GeqTenPow(_, _, _)
GeqTenPow(a, d, k) ==
    IF a <= 0 THEN FALSE
    ELSE IF a >= d THEN TRUE
    ELSE IF k = 0 THEN FALSE
    ELSE GeqTenPow(10 * a, d, k - 1)

GeqNegPow10(x, k) == GeqTenPow(x[1], x[3], k)

RECURSIVE Pow10(_)
Pow10(k) == IF k = 0 THEN 1 ELSE 10 * Pow10(k - 1)

NegPow10(k) == <<1, 0, Pow10(k)>>

\* x / 10^(-k)
DivNegPow10(x, k) == IF IsZero(x) THEN Zero ELSE Mul(x, Int2C(Pow10(k)))

RECURSIVE SumSeq(_)
SumSeq(s) == IF s = <<>> THEN Zero ELSE Add(Head(s), SumSeq(Tail(s)))

(***************************************************************************)
(* n-dimensional arrays.                                                   *)
(***************************************************************************)
RECURSIVE Idx(_)
Idx(shape) ==
    IF shape = <<>> THEN {<<>>}
    ELSE {<<i>> \o r : i \in 1..Head(shape), r \in Idx(Tail(shape))}

Ndim(arr) == Len(arr.shape)

\* the dtype of the result of an arithmetic operation on two arrays
Promote(d1, d2) ==
    IF d1 = "complex128" \/ d2 = "complex128" THEN "complex128" ELSE "float64"

\* a sequence built as a function, as the tuple it is
Tup(f) == SubSeq(f, 1, Len(f))

\* a function built by a rule, as the table of its values
Eval(f) == f @@ <<>>

\* position (1-based) of axis number ax (negative: from the end) in an array of rank n
Pos(ax, n) == IF ax < 0 THEN ax + n + 1 ELSE ax + 1

\* ndarray.transpose(axes): result axis j is source axis axes[j]
Transpose(arr, axes) ==
    LET n == Ndim(arr)
        p == Tup([j \in 1..n |-> Pos(axes[j], n)])
        shp == Tup([j \in 1..n |-> arr.shape[p[j]]])
        src(ix) == Tup([k \in 1..n |-> ix[CHOOSE j \in 1..n : p[j] = k]])
    IN  [shape |-> shp, data |-> Eval([ix \in Idx(shp) |-> arr.data[src(ix)]]),
         dtype |-> arr.dtype]

\* ndarray.T: all axes reversed
T(arr) == Transpose(arr, Tup([j \in 1..Ndim(arr) |-> Ndim(arr) - j]))

\* np.expand_dims(arr, -2)
ExpandDimsM2(arr) ==
    LET n == Ndim(arr)
        shp == SubSeq(arr.shape, 1, n - 1) \o <<1, arr.shape[n]>>
    IN  [shape |-> shp,
         data |-> Eval([ix \in Idx(shp) |->
                     arr.data[SubSeq(ix, 1, n - 1) \o <<ix[n + 1]>>]]),
         dtype |-> arr.dtype]

\* np.expand_dims(arr, axis=0)
ExpandDims0(arr) ==
    LET shp == <<1>> \o arr.shape
    IN  [shape |-> shp, data |-> Eval([ix \in Idx(shp) |-> arr.data[Tail(ix)]]),
         dtype |-> arr.dtype]

\* a variant of the conjugation that leaves the array as it is
Unconjugated(arr) == arr

ConjArr(arr) ==
    [shape |-> arr.shape, data |-> Eval([ix \in DOMAIN arr.data |-> Conj(arr.data[ix])]),
     dtype |-> arr.dtype]

\* the index into arr that broadcasting maps index ix of the result to
BIx(arr, ix) == Tup([k \in 1..Len(ix) |-> IF arr.shape[k] = 1 THEN 1 ELSE ix[k]])

BShape(a, b) ==
    Tup([k \in 1..Ndim(a) |-> IF a.shape[k] = 1 THEN b.shape[k] ELSE a.shape[k]])

\* elementwise a * b of two arrays of equal rank, axes of length 1 broadcast
MulArr(a, b) ==
    LET shp == BShape(a, b)
    IN  [shape |-> shp,
         data |-> Eval([ix \in Idx(shp) |-> Mul(a.data[BIx(a, ix)], b.data[BIx(b, ix)])]),
         dtype |-> Promote(a.dtype, b.dtype)]

\* np.sum(arr, axis=ax, keepdims=True)
SumKeep(arr, ax) ==
    LET n == Ndim(arr)
        p == Pos(ax, n)
        shp == [arr.shape EXCEPT ![p] = 1]
    IN  [shape |-> shp,
         data |-> Eval([ix \in Idx(shp) |->
                     SumSeq(Tup([t \in 1..arr.shape[p] |-> arr.data[Tup([ix EXCEPT ![p] = t])]]))]),
         dtype |-> arr.dtype]

\* np.einsum('...dt,...et->...de', x, y)
Einsum_dt_et(x, y) ==
    LET n == Ndim(x)
        shp == SubSeq(x.shape, 1, n - 1) \o <<y.shape[n - 1]>>
    IN  [shape |-> shp,
         data |-> Eval([ix \in Idx(shp) |->
             SumSeq(Tup([t \in 1..x.shape[n] |->
                 Mul(x.data[SubSeq(ix, 1, n - 1) \o <<t>>],
                     y.data[SubSeq(ix, 1, n - 2) \o <<ix[n], t>>])]))]),
         dtype |-> Promote(x.dtype, y.dtype)]

\* np.einsum('...kt,...dt,...et->...kde', m, x, y)
Einsum_kt_dt_et(m, x, y) ==
    LET n == Ndim(x)
        b == n - 2
        shp == SubSeq(x.shape, 1, b) \o <<m.shape[n - 1], x.shape[n - 1], y.shape[n - 1]>>
    IN  [shape |-> shp,
         data |-> Eval([ix \in Idx(shp) |->
             SumSeq(Tup([t \in 1..x.shape[n] |->
                 Mul(m.data[SubSeq(ix, 1, b) \o <<ix[b + 1], t>>],
                     Mul(x.data[SubSeq(ix, 1, b) \o <<ix[b + 2], t>>],
                         y.data[SubSeq(ix, 1, b) \o <<ix[b + 3], t>>]))]))]),
         dtype |-> Promote(m.dtype, Promote(x.dtype, y.dtype))]

\* a variant of the roll that leaves the axes where they are
Unrolled(arr, axis, start) == arr

\* np.rollaxis(arr, axis, start)
Rollaxis(arr, axis, start) ==
    LET n == Ndim(arr)
        ax == IF axis < 0 THEN axis + n ELSE axis
        st0 == IF start < 0 THEN start + n ELSE start
        st == IF ax < st0 THEN st0 - 1 ELSE st0
        rest == SelectSeq(Tup([k \in 1..n |-> k - 1]), LAMBDA k : k # ax)
        axes == SubSeq(rest, 1, st) \o <<ax>> \o SubSeq(rest, st + 1, n - 1)
    IN  IF ax = st THEN arr ELSE Transpose(arr, axes)


(***************************************************************************)
(* get_power_spectral_density_matrix                                       *)
(***************************************************************************)
\* d % observation.ndim - observation.ndim: the axis number made negative
NegDim(d, ndim) == (d % ndim) - ndim

\* [i for i in range(-ndim, 0) if i not in [a, b]] + [a, b]
MoveLast(ndim, a, b) ==
    SelectSeq(Tup([k \in 1..ndim |-> k - ndim - 1]), LAMBDA i : i # a /\ i # b) \o <<a, b>>

\* np.asfarray(mask): a new float array holding the values of mask
AsFarray(m) == [m EXCEPT !.dtype = "float64"]

\* a variant of the quotient without the floor: a zero sum gives a non-finite entry
UnflooredQuotient(x, S) == IF IsZero(S) THEN <<0, 0, 0>> ELSE Div(x, S)

\* one entry of mask / np.maximum(S, 1e-10), S the sum of the entry's slice along time
FlooredQuotient(x, S) ==
    IF GeqNegPow10(S, PsdFloorExp) THEN Div(x, S) ELSE DivNegPow10(x, PsdFloorExp)

\* mask /= np.maximum(np.sum(mask, axis=time_dim, keepdims=True), 1e-10)
NormalizeMask(m, time_dim) ==
    LET s == SumKeep(m, time_dim)
    IN  [shape |-> m.shape,
         data |-> Eval([ix \in DOMAIN m.data |-> FlooredQuotient(m.data[ix], s.data[BIx(s, ix)])]),
         dtype |-> m.dtype]

\* a variant of the division that leaves the sum as it is
Undivided(psd, frames) == psd

\* psd /= observation.shape[-1]
DivideByFrames(psd, frames) ==
    [shape |-> psd.shape,
     data |-> Eval([ix \in DOMAIN psd.data |-> Div(psd.data[ix], Int2C(frames))]),
     dtype |-> psd.dtype]

\* The value returned (psd), the weights used in the sum (weights) and the
\* caller's mask object after the call (mask): the normalisation divides the
\* mask object it was handed in place; a boolean mask is first copied by
\* np.asfarray, and the copy is what is divided.
get_power_spectral_density_matrix(observation0, mask0, sensor_dim0, source_dim0, time_dim0) ==
    LET ndim == Ndim(observation0)
        sensor_dim == NegDim(sensor_dim0, ndim)
        source_dim_ == NegDim(source_dim0, ndim)
        time_dim == NegDim(time_dim0, ndim)
        obs == Transpose(observation0, MoveLast(ndim, sensor_dim, time_dim))
    IN  IF mask0 = None
        THEN [psd |-> DivideByFrames(Einsum_dt_et(obs, ConjArr(obs)), obs.shape[ndim]),
              weights |-> None, mask |-> None]
        ELSE LET floated == IF mask0.dtype = "bool" THEN AsFarray(mask0) ELSE mask0
                 normalized == NormalizeMask(floated, time_dim)
                 caller == IF mask0.dtype = "bool" THEN mask0 ELSE normalized
             IN  IF Ndim(normalized) + 1 = ndim
                 THEN [psd |-> Einsum_dt_et(MulArr(ExpandDimsM2(normalized), obs),
                                            ConjArr(obs)),
                       weights |-> normalized, mask |-> caller]
                 ELSE LET sourced == Transpose(normalized,
                                               MoveLast(ndim, source_dim_, time_dim))
                          psd == Einsum_kt_dt_et(sourced, obs, ConjArr(obs))
                      IN  [psd |-> IF source_dim_ < -2
                                   THEN Rollaxis(psd, -3, source_dim_ % ndim)
                                   ELSE psd,
                           weights |-> normalized, mask |-> caller]


(***************************************************************************)
(* get_power_spectral_density_matrix_old                                   *)
(***************************************************************************)
\* np.ones(shape)
Ones(shape) ==
    [shape |-> shape, data |-> Eval([ix \in Idx(shape) |-> One]), dtype |-> "float64"]

\* mask[:, np.newaxis, :] of a 2-D mask: a view of shape (bins, 1, frames)
NewAxis1(m) ==
    [shape |-> <<m.shape[1], 1, m.shape[2]>>,
     data |-> Eval([ix \in Idx(<<m.shape[1], 1, m.shape[2]>>) |-> m.data[<<ix[1], ix[3]>>]]),
     dtype |-> m.dtype]

\* the 2-D array that the view mask[:, np.newaxis, :] shows
BehindNewAxis1(v) ==
    [shape |-> <<v.shape[1], v.shape[3]>>,
     data |-> Eval([ix \in Idx(<<v.shape[1], v.shape[3]>>) |-> v.data[<<ix[1], 1, ix[2]>>]]),
     dtype |-> v.dtype]

\* one entry of mask / np.maximum(S, 1e-6), S the sum of the entry's slice along the last axis
OldFlooredQuotient(x, S) ==
    IF GeqNegPow10(S, OldFloorExp) THEN Div(x, S) ELSE DivNegPow10(x, OldFloorExp)

\* mask /= np.maximum(np.sum(mask, axis=-1, keepdims=True), 1e-6)
OldNormalizeMask(m) ==
    LET s == SumKeep(m, -1)
    IN  [shape |-> m.shape,
         data |-> Eval([ix \in DOMAIN m.data |->
                      OldFlooredQuotient(m.data[ix], s.data[BIx(s, ix)])]),
         dtype |-> m.dtype]

\* the leading axes of a 3-D mask and of a 3-D observation broadcast against each other
Broadcastable(m, x) == m.shape[1] = x.shape[1] \/ m.shape[1] = 1 \/ x.shape[1] = 1

\* np.einsum('...ft,...dt,...et->...de', m, x, y) of 3-D arrays
Einsum_ft_dt_et(m, x, y) ==
    LET lead == IF m.shape[1] = 1 THEN x.shape[1] ELSE m.shape[1]
        shp == <<lead, x.shape[2], y.shape[2]>>
    IN  [shape |-> shp,
         data |-> Eval([ix \in Idx(shp) |->
             SumSeq(Tup([f \in 1..m.shape[2] |->
                 SumSeq(Tup([t \in 1..m.shape[3] |->
                     Mul(m.data[<<IF m.shape[1] = 1 THEN 1 ELSE ix[1], f, t>>],
                         Mul(x.data[<<IF x.shape[1] = 1 THEN 1 ELSE ix[1], ix[2], t>>],
                             y.data[<<IF y.shape[1] = 1 THEN 1 ELSE ix[1], ix[3], t>>]))]))]))]),
         dtype |-> Promote(m.dtype, Promote(x.dtype, y.dtype))]

\* the division in place and the sum: viewed is the 3-D array that is divided,
\* behind the caller's object that viewed is a view of (None for the local np.ones)
OldEstimate(observation0, mask0, viewed, is_view) ==
    IF viewed.dtype = "bool"
    THEN \* the in-place division cannot cast its float result to bool
         [status |-> "TypeError", psd |-> None, weights |-> None, mask |-> mask0]
    ELSE LET normalized == OldNormalizeMask(viewed)
             caller == IF mask0 = None THEN None
                       ELSE IF is_view THEN BehindNewAxis1(normalized)
                       ELSE normalized
         IN  IF Broadcastable(normalized, observation0)
             THEN [status |-> "ok",
                   psd |-> Einsum_ft_dt_et(normalized, observation0, ConjArr(observation0)),
                   weights |-> normalized, mask |-> caller]
             ELSE [status |-> "ValueError", psd |-> None,
                   weights |-> normalized, mask |-> caller]

\* The status, the value returned (psd), the weights used in the sum and the
\* caller's mask object after the call: a 2-D mask is divided in place
\* through its view, a 3-D mask directly.
get_power_spectral_density_matrix_old(observation0, mask0) ==
    IF Ndim(observation0) # 3
    THEN \* bins, sensors, frames = observation.shape
         [status |-> "ValueError", psd |-> None, weights |-> None, mask |-> mask0]
    ELSE IF mask0 = None
    THEN OldEstimate(observation0, mask0,
                     NewAxis1(Ones(<<observation0.shape[1], observation0.shape[3]>>)), TRUE)
    ELSE IF Ndim(mask0) = 2
    THEN OldEstimate(observation0, mask0, NewAxis1(mask0), TRUE)
    ELSE OldEstimate(observation0, mask0, mask0, FALSE)


(***************************************************************************)
(* Vectors and square matrices (a matrix is a sequence of rows).           *)
(***************************************************************************)
MatAt(arr, lead) ==
    LET n == arr.shape[Ndim(arr)]
    IN  Tup([i \in 1..n |-> Tup([j \in 1..n |-> arr.data[lead \o <<i, j>>]])])

VecAt(arr, lead) == Tup([d \in 1..arr.shape[Ndim(arr)] |-> arr.data[lead \o <<d>>]])

\* sum over d of conj(u[d]) * v[d]
Dot(u, v) == SumSeq(Tup([d \in 1..Len(u) |-> Mul(Conj(u[d]), v[d])]))

ScaleVec(c, v) == Tup([d \in 1..Len(v) |-> Mul(c, v[d])])

UnitVec(k, n) == Tup([d \in 1..n |-> IF d = k THEN One ELSE Zero])

DropAt(s, k) == SubSeq(s, 1, k - 1) \o SubSeq(s, k + 1, Len(s))

RECURSIVE Det(_)
Det(M) ==
    IF Len(M) = 1 THEN M[1][1]
    ELSE SumSeq(Tup([j \in 1..Len(M) |->
             LET minor == Tup([i \in 1..(Len(M) - 1) |-> DropAt(M[i + 1], j)])
                 term == Mul(M[1][j], Det(minor))
             IN  IF j % 2 = 1 THEN term ELSE Neg(term)]))

IsDiagonal(M) ==
    \A i \in 1..Len(M) : \A j \in 1..Len(M) :
        IF i = j THEN IsReal(M[i][j]) ELSE IsZero(M[i][j])

\* the exact square root of a non-negative real number, when it is rational
RECURSIVE IRoot(_, _)
IRoot(n, k) == IF k * k >= n THEN k ELSE IRoot(n, k + 1)

HasSqrt(x) ==
    /\ IsReal(x) /\ x[1] >= 0
    /\ IRoot(x[1], 0) * IRoot(x[1], 0) = x[1]
    /\ IRoot(x[3], 1) * IRoot(x[3], 1) = x[3]

Sqrt(x) == <<IRoot(x[1], 0), 0, IRoot(x[3], 1)>>

\* |z|^2 of a complex number
AbsSq(z) == Mul(z, Conj(z))

\* the indices 1..n ordered by ascending value, ties in index order
Ascending(vals) ==
    LET n == Len(vals)
        rank(k) == Cardinality({j \in 1..n :
                       Less(vals[j], vals[k]) \/ (vals[j] = vals[k] /\ j < k)}) + 1
    IN  Tup([p \in 1..n |-> CHOOSE k \in 1..n : rank(k) = p])

\* numpy's order of complex numbers: by real part, then by imaginary part
LessLex(x, y) ==
    LET xr == <<x[1], 0, x[3]>>
        yr == <<y[1], 0, y[3]>>
        xi == <<x[2], 0, x[3]>>
        yi == <<y[2], 0, y[3]>>
    IN  Less(xr, yr) \/ (xr = yr /\ Less(xi, yi))

\* np.argmax: the first index holding the maximum
Argmax(vals) ==
    CHOOSE k \in 1..Len(vals) :
        /\ \A j \in 1..Len(vals) : ~LessLex(vals[k], vals[j])
        /\ \A j \in 1..(k - 1) : LessLex(vals[j], vals[k])

(***************************************************************************)
(* The library solvers.  A result is exact; a decomposition whose entries  *)
(* are irrational has no exact value and is reported "unrepresentable".    *)
(***************************************************************************)
\* np.linalg.eigh(M) of one Hermitian matrix: ascending eigenvalues, unit eigenvectors
NumpyEigh(M) ==
    IF ~IsDiagonal(M) THEN [status |-> "unrepresentable"]
    ELSE LET n == Len(M)
             order == Ascending(Tup([k \in 1..n |-> M[k][k]]))
         IN  [status |-> "ok",
              eigenvals |-> Tup([p \in 1..n |-> M[order[p]][order[p]]]),
              \* eigenvecs[p] is column p
              eigenvecs |-> Tup([p \in 1..n |-> UnitVec(order[p], n)])]

\* np.linalg.solve(M, v): LinAlgError when M is singular
NumpySolve(M, v) ==
    LET n == Len(M)
        det == Det(M)
        replaced(k) == Tup([i \in 1..n |-> Tup([j \in 1..n |-> IF j = k THEN v[i] ELSE M[i][j]])])
    IN  IF IsZero(det) THEN [status |-> "LinAlgError"]
        ELSE [status |-> "ok", x |-> Tup([k \in 1..n |-> Div(Det(replaced(k)), det)])]

\* the leading principal minors of M are all positive
PositiveDefinite(M) ==
    \A n \in 1..Len(M) :
        LET d == Det(Tup([i \in 1..n |-> SubSeq(M[i], 1, n)]))
        IN  IsReal(d) /\ d[1] > 0

\* scipy.linalg.eigh(A, B): LinAlgError when B is not positive definite;
\* eigenvalues ascending, eigenvectors v with v^H B v = 1
ScipyEigh(A, B) ==
    IF ~PositiveDefinite(B) THEN [status |-> "LinAlgError"]
    ELSE IF ~(IsDiagonal(A) /\ IsDiagonal(B) /\ \A k \in 1..Len(B) : HasSqrt(B[k][k]))
    THEN [status |-> "unrepresentable"]
    ELSE LET n == Len(A)
             ratio == Tup([k \in 1..n |-> Div(A[k][k], B[k][k])])
             order == Ascending(ratio)
         IN  [status |-> "ok",
              eigenvals |-> Tup([p \in 1..n |-> ratio[order[p]]]),
              eigenvecs |-> Tup([p \in 1..n |->
                  ScaleVec(Inv(Sqrt(B[order[p]][order[p]])), UnitVec(order[p], n))])]

IsTriangularPair(A, B) ==
    \A i \in 1..Len(A) : \A j \in 1..Len(A) :
        i # j => (IsZero(A[i][j]) /\ IsZero(B[i][j]))

\* scipy.linalg.eig(A, B): LinAlgError when the iteration does not converge
\* (fault); eigenvalues in the order found, eigenvectors of unit norm
ScipyEig(A, B, fault) ==
    IF fault THEN [status |-> "LinAlgError"]
    ELSE IF ~(IsTriangularPair(A, B) /\ \A k \in 1..Len(B) : ~IsZero(B[k][k]))
    THEN [status |-> "unrepresentable"]
    ELSE LET n == Len(A)
         IN  [status |-> "ok",
              eigenvals |-> Tup([k \in 1..n |-> Div(A[k][k], B[k][k])]),
              eigenvecs |-> Tup([k \in 1..n |-> UnitVec(k, n)])]


(***************************************************************************)
(* The vector solvers and post-processors.  Each returns its status ("ok", *)
(* or the exception raised) and, when ok, its value.                       *)
(***************************************************************************)
\* the marker of a non-finite entry (inf or nan, from a division by zero)
NaN == <<0, 0, 0>>
IsNaN(x) == x[3] = 0

\* every entry of the array is small enough for the exact solvers
Representable(arr) ==
    \A ix \in DOMAIN arr.data :
        /\ Abs(arr.data[ix][1]) <= MaxMagnitude
        /\ Abs(arr.data[ix][2]) <= MaxMagnitude
        /\ arr.data[ix][3] <= MaxMagnitude

RECURSIVE Prod(_)
Prod(s) == IF s = <<>> THEN 1 ELSE Head(s) * Prod(Tail(s))

RECURSIVE Flat(_, _)
Flat(ix, shape) ==
    IF ix = <<>> THEN 0
    ELSE (Head(ix) - 1) * Prod(Tail(shape)) + Flat(Tail(ix), Tail(shape))

RECURSIVE Unflat(_, _)
Unflat(p, shape) ==
    IF shape = <<>> THEN <<>>
    ELSE <<(p \div Prod(Tail(shape))) + 1>> \o Unflat(p % Prod(Tail(shape)), Tail(shape))

\* np.reshape(arr, newshape), row-major
Reshape(arr, newshape) ==
    [shape |-> newshape,
     data |-> Eval([ix \in Idx(newshape) |-> arr.data[Unflat(Flat(ix, newshape), arr.shape)]]),
     dtype |-> arr.dtype]

get_pca_vector(target_psd_matrix_) ==
    LET shape == target_psd_matrix_.shape
        n == Len(shape)
        flat == Reshape(target_psd_matrix_,
                        <<Prod(SubSeq(shape, 1, n - 2))>> \o SubSeq(shape, n - 1, n))
        count == flat.shape[1]
        eigs == Tup([i \in 1..count |-> NumpyEigh(MatAt(flat, <<i>>))])
    IN  IF ~Representable(target_psd_matrix_)
           \/ \E i \in 1..count : eigs[i].status = "unrepresentable"
        THEN [status |-> "unrepresentable", value |-> None]
        ELSE LET vals == Tup([i \in 1..count |-> Argmax(eigs[i].eigenvals)])
                 beamforming_vector ==
                     [shape |-> <<count, shape[n]>>,
                      data |-> Eval([ix \in Idx(<<count, shape[n]>>) |->
                                   eigs[ix[1]].eigenvecs[vals[ix[1]]][ix[2]]]),
                      dtype |-> "complex128"]
             IN  [status |-> "ok",
                  value |-> Reshape(beamforming_vector, SubSeq(shape, 1, n - 1))]

\* while atf_vector.ndim > noise_psd_matrix.ndim - 1: expand_dims(noise_psd_matrix, axis=0)
RECURSIVE ExpandToAtf(_, _)
ExpandToAtf(noise, atf_ndim) ==
    IF atf_ndim > Ndim(noise) - 1 THEN ExpandToAtf(ExpandDims0(noise), atf_ndim)
    ELSE noise

\* one entry of 0.5 * (N + conj(N.swapaxes(-1, -2)))
HermitianEntry(x, y) == Mul(Rat(1, 2), Add(x, Conj(y)))

\* 0.5 * (noise_psd_matrix + np.conj(noise_psd_matrix.swapaxes(-1, -2)))
HermitianPart(noise) ==
    LET n == Ndim(noise)
        swapped(ix) == SubSeq(ix, 1, n - 2) \o <<ix[n], ix[n - 1]>>
    IN  [shape |-> noise.shape,
         data |-> Eval([ix \in DOMAIN noise.data |->
                      HermitianEntry(noise.data[ix], noise.data[swapped(ix)])]),
         dtype |-> "complex128"]

\* a variant of the division that leaves the numerator as it is
Unnormalized(x, denominator) == x

\* numerator / np.expand_dims(denominator, axis=-1), one entry
Normalized(x, denominator) == IF IsZero(denominator) THEN NaN ELSE Div(x, denominator)

get_mvdr_vector(atf_vector_, noise_psd_matrix_) ==
    LET expanded == ExpandToAtf(noise_psd_matrix_, Ndim(atf_vector_))
        noise == HermitianPart(expanded)
        n == Ndim(atf_vector_)
        lead == SubSeq(atf_vector_.shape, 1, n - 1)
        nlead(ix) == Tup([k \in 1..(n - 1) |-> IF noise.shape[k] = 1 THEN 1 ELSE ix[k]])
        solved == Eval([ix \in Idx(lead) |->
                      NumpySolve(MatAt(noise, nlead(ix)), VecAt(atf_vector_, ix))])
    IN  IF ~(Representable(atf_vector_) /\ Representable(noise_psd_matrix_))
        THEN [status |-> "unrepresentable", value |-> None, denominator |-> None]
        ELSE IF \E ix \in Idx(lead) : solved[ix].status = "LinAlgError"
        THEN [status |-> "LinAlgError", value |-> None, denominator |-> None]
        ELSE LET denominator == Eval([ix \in Idx(lead) |->
                                    Dot(VecAt(atf_vector_, ix), solved[ix].x)])
             IN  [status |-> "ok",
                  value |-> [shape |-> atf_vector_.shape,
                             data |-> Eval([ix \in Idx(atf_vector_.shape) |->
                                 Normalized(solved[SubSeq(ix, 1, n - 1)].x[ix[n]],
                                            denominator[SubSeq(ix, 1, n - 1)])]),
                             dtype |-> "complex128"],
                  denominator |-> denominator]

\* a variant of one bin of the loop without the fallback
GevBinNoFallback(f, first, second) == [used |-> first, calls |-> <<<<f, "eigh">>>>]

\* One bin of the loop of get_gev_vector: the outcome of the Hermitian
\* solver (first), the outcome of the general solver (second) that is
\* consulted only when the first raised LinAlgError.
GevBin(f, first, second) ==
    IF first.status = "LinAlgError"
    THEN [used |-> second, calls |-> <<<<f, "eigh">>, <<f, "eig">>>>]
    ELSE [used |-> first, calls |-> <<<<f, "eigh">>>>]

\* beamforming_vector[f, :] = eigenvecs[:, np.argmax(eigenvals)]
GevStore(stored, used) == Append(stored, used.eigenvecs[Argmax(used.eigenvals)])

\* The loop over the bins of get_gev_vector from bin f on: the solver calls
\* made so far (calls), the vectors stored so far (stored).
RECURSIVE GevLoop(_, _, _, _, _, _, _)
GevNext(f, bins, target, noise, faults, calls, stored, bin) ==
    IF bin.used.status # "ok"
    THEN [status |-> bin.used.status, calls |-> calls \o bin.calls, stored |-> stored]
    ELSE GevLoop(f + 1, bins, target, noise, faults, calls \o bin.calls,
                 GevStore(stored, bin.used))

GevLoop(f, bins, target, noise, faults, calls, stored) ==
    IF f > bins THEN [status |-> "ok", calls |-> calls, stored |-> stored]
    ELSE GevNext(f, bins, target, noise, faults, calls, stored,
                 GevBin(f, ScipyEigh(MatAt(target, <<f>>), MatAt(noise, <<f>>)),
                        ScipyEig(MatAt(target, <<f>>), MatAt(noise, <<f>>), f \in faults)))

get_gev_vector(target_psd_matrix_, noise_psd_matrix_, faults) ==
    LET bins == target_psd_matrix_.shape[1]
        sensors == target_psd_matrix_.shape[2]
        loop == IF Representable(target_psd_matrix_) /\ Representable(noise_psd_matrix_)
                THEN GevLoop(1, bins, target_psd_matrix_, noise_psd_matrix_, faults,
                             <<>>, <<>>)
                ELSE [status |-> "unrepresentable", calls |-> <<>>]
    IN  [status |-> loop.status,
         calls |-> loop.calls,
         value |-> IF loop.status # "ok" THEN None
                   ELSE [shape |-> <<bins, sensors>>,
                         data |-> Eval([ix \in Idx(<<bins, sensors>>) |-> loop.stored[ix[1]][ix[2]]]),
                         dtype |-> "complex128"]]

\* np.abs(z) of a complex number, when it is rational
HasAbs(z) == HasSqrt(AbsSq(z))
AbsC(z) == Sqrt(AbsSq(z))

\* vector^H N N vector and vector^H N vector of one bin
QuadNN(v, N) ==
    LET vN == Tup([j \in 1..Len(v) |-> SumSeq(Tup([i \in 1..Len(v) |-> Mul(Conj(v[i]), N[i][j])]))])
        vNN == Tup([j \in 1..Len(v) |-> SumSeq(Tup([i \in 1..Len(v) |-> Mul(vN[i], N[i][j])]))])
    IN  SumSeq(Tup([j \in 1..Len(v) |-> Mul(vNN[j], v[j])]))

QuadN(v, N) ==
    LET vN == Tup([j \in 1..Len(v) |-> SumSeq(Tup([i \in 1..Len(v) |-> Mul(Conj(v[i]), N[i][j])]))])
    IN  SumSeq(Tup([j \in 1..Len(v) |-> Mul(vN[j], v[j])]))

blind_analytic_normalization(vector, noise_psd_matrix_) ==
    LET bins == vector.shape[1]
        v(f) == VecAt(vector, <<f>>)
        N(f) == MatAt(noise_psd_matrix_, <<f>>)
        exact(f) == /\ HasAbs(QuadNN(v(f), N(f)))
                    /\ HasSqrt(AbsC(QuadNN(v(f), N(f))))
                    /\ HasAbs(QuadN(v(f), N(f)))
        normalization(f) ==
            IF IsZero(QuadN(v(f), N(f))) THEN NaN
            ELSE Div(Sqrt(AbsC(QuadNN(v(f), N(f)))), AbsC(QuadN(v(f), N(f))))
    IN  IF \E f \in 1..bins : ~exact(f)
        THEN [status |-> "unrepresentable", value |-> None]
        ELSE [status |-> "ok",
              value |-> [shape |-> vector.shape,
                         data |-> Eval([ix \in DOMAIN vector.data |->
                             IF IsNaN(normalization(ix[1])) THEN NaN
                             ELSE Mul(vector.data[ix], normalization(ix[1]))]),
                         dtype |-> "complex128"]]

\* np.einsum('...a,...at->...t', vector.conj(), mix)
apply_beamforming_vector(vector, mix) ==
    LET n == Ndim(mix)
        shp == SubSeq(mix.shape, 1, n - 2) \o <<mix.shape[n]>>
        lead(ix) == SubSeq(ix, 1, n - 2)
    IN  [shape |-> shp,
         data |-> Eval([ix \in Idx(shp) |->
             IF \E a \in 1..mix.shape[n - 1] : IsNaN(vector.data[lead(ix) \o <<a>>])
             THEN NaN
             ELSE SumSeq(Tup([a \in 1..mix.shape[n - 1] |->
                     Mul(Conj(vector.data[lead(ix) \o <<a>>]),
                         mix.data[lead(ix) \o <<a, ix[n - 1]>>])]))]),
         dtype |-> "complex128"]


(***************************************************************************)
(* The mask-based pipelines.  Each returns the outcome of the call: the    *)
(* status, the value returned, the internal calls made (steps), the        *)
(* caller's two mask objects after the call, and the intermediate values.  *)
(***************************************************************************)
\* a variant of the guard that misses the case of two missing masks
OnlyNoiseMissing(noise_mask_, target_mask_) == noise_mask_ = None /\ target_mask_ # None

\* noise_mask is None and target_mask is None
BothMasksMissing(noise_mask_, target_mask_) == noise_mask_ = None /\ target_mask_ = None

\* one entry of np.clip(1 - mask, 1e-6, 1)
ClipComplement(x) ==
    LET y == Sub(One, x)
    IN  IF ~GeqNegPow10(y, ClipFloorExp) THEN NegPow10(ClipFloorExp)
        ELSE IF Less(One, y) THEN One
        ELSE y

\* np.clip(1 - mask, 1e-6, 1): a new array
DeriveMask(m) ==
    [shape |-> m.shape, data |-> Eval([ix \in DOMAIN m.data |-> ClipComplement(m.data[ix])]),
     dtype |-> "float64"]

\* the caller's mask object after the PSD estimator was handed its view mask.T
AfterView(given, psd_result) == IF given = None THEN None ELSE T(psd_result.mask)

\* noise_psd_matrix += np.tile(regularization * np.eye(sensors), (bins, 1, 1))
Regularize(noise_psd, regularization) ==
    IF regularization = None THEN noise_psd
    ELSE [shape |-> noise_psd.shape,
          data |-> Eval([ix \in DOMAIN noise_psd.data |->
                       IF ix[2] = ix[3] THEN Add(noise_psd.data[ix], regularization)
                       ELSE noise_psd.data[ix]]),
          dtype |-> noise_psd.dtype]

PSD == "get_power_spectral_density_matrix"
PSD_OLD == "get_power_spectral_density_matrix_old"

Outcome(status, value, steps, nm, tm, derived, tpsd, npsd, vector, mvdr) ==
    [status |-> status, value |-> value, steps |-> steps,
     noise_mask |-> nm, target_mask |-> tm, derived |-> derived,
     target_psd |-> tpsd, noise_psd |-> npsd, vector |-> vector, mvdr |-> mvdr]

Raised(status, steps, nm, tm, derived, tpsd, npsd, vector) ==
    Outcome(status, None, steps, nm, tm, derived, tpsd, npsd, vector, None)

\* the missing mask, derived from the one supplied (None when both are supplied)
DerivedMask(noise_mask0, target_mask0) ==
    IF target_mask0 = None THEN DeriveMask(T(noise_mask0))
    ELSE IF noise_mask0 = None THEN DeriveMask(T(target_mask0))
    ELSE None

\* the mask handed to the PSD estimator: the view mask.T of the caller's mask, or the derived one
UsedMask(given, derived) == IF given = None THEN derived ELSE T(given)

\* output = apply_beamforming_vector(W_gev, mix); return output.T
GevApply(mix, nm, tm, derived, tpsd, npsd, normalized, normalization) ==
    IF normalized.status # "ok"
    THEN Raised(normalized.status, <<PSD, PSD, "get_gev_vector">>, nm, tm, derived,
                tpsd, npsd, None)
    ELSE Outcome("ok", T(apply_beamforming_vector(normalized.value, mix)),
                 <<PSD, PSD, "get_gev_vector">>
                 \o (IF normalization THEN <<"blind_analytic_normalization">> ELSE <<>>)
                 \o <<"apply_beamforming_vector">>,
                 nm, tm, derived, tpsd, npsd, normalized.value, None)

\* if normalization: W_gev = blind_analytic_normalization(W_gev, noise_psd)
GevNormalize(mix, nm, tm, derived, tpsd, npsd, W_gev, normalization) ==
    IF W_gev.status # "ok"
    THEN Raised(W_gev.status, <<PSD, PSD, "get_gev_vector">>, nm, tm, derived,
                tpsd, npsd, None)
    ELSE GevApply(mix, nm, tm, derived, tpsd, npsd,
                  IF normalization THEN blind_analytic_normalization(W_gev.value, npsd)
                  ELSE [status |-> "ok", value |-> W_gev.value],
                  normalization)

\* W_gev = get_gev_vector(target_psd, noise_psd)
GevSolve(mix, noise_mask0, target_mask0, derived, target, noise, normalization, faults) ==
    GevNormalize(mix, AfterView(noise_mask0, noise), AfterView(target_mask0, target),
                 derived, target.psd, noise.psd,
                 get_gev_vector(target.psd, noise.psd, faults), normalization)

\* the two PSD estimates, the target one first
GevEstimate(mix, noise_mask0, target_mask0, derived, normalization, faults) ==
    GevSolve(mix, noise_mask0, target_mask0, derived,
             get_power_spectral_density_matrix(mix, UsedMask(target_mask0, derived), -2, -2, -1),
             get_power_spectral_density_matrix(mix, UsedMask(noise_mask0, derived), -2, -2, -1),
             normalization, faults)

gev_wrapper_on_masks(mix0, noise_mask0, target_mask0, normalization, faults) ==
    IF BothMasksMissing(noise_mask0, target_mask0)
    THEN Raised("ValueError", <<>>, noise_mask0, target_mask0, None, None, None, None)
    ELSE IF noise_mask0 = None /\ target_mask0 = None
    THEN Raised("TypeError", <<>>, noise_mask0, target_mask0, None, None, None, None)
    ELSE GevEstimate(T(mix0), noise_mask0, target_mask0,
                     DerivedMask(noise_mask0, target_mask0), normalization, faults)

\* output = apply_beamforming_vector(W_pca, mix); return output.T
PcaApply(mix, nm, tm, derived, tpsd, W_pca) ==
    IF W_pca.status # "ok"
    THEN Raised(W_pca.status, <<PSD, "get_pca_vector">>, nm, tm, derived, tpsd, None, None)
    ELSE Outcome("ok", T(apply_beamforming_vector(W_pca.value, mix)),
                 <<PSD, "get_pca_vector", "apply_beamforming_vector">>,
                 nm, tm, derived, tpsd, None, W_pca.value, None)

\* W_pca = get_pca_vector(target_psd)
PcaSolve(mix, noise_mask0, target_mask0, derived, target) ==
    PcaApply(mix, noise_mask0, AfterView(target_mask0, target), derived, target.psd,
             get_pca_vector(target.psd))

\* the target PSD estimate (the noise mask is only used to derive a missing target mask)
PcaEstimate(mix, noise_mask0, target_mask0, derived) ==
    PcaSolve(mix, noise_mask0, target_mask0, derived,
             get_power_spectral_density_matrix(mix, UsedMask(target_mask0, derived), -2, -2, -1))

pca_wrapper_on_masks(mix0, noise_mask0, target_mask0) ==
    IF BothMasksMissing(noise_mask0, target_mask0)
    THEN Raised("ValueError", <<>>, noise_mask0, target_mask0, None, None, None, None)
    ELSE IF noise_mask0 = None /\ target_mask0 = None
    THEN Raised("TypeError", <<>>, noise_mask0, target_mask0, None, None, None, None)
    ELSE PcaEstimate(T(mix0), noise_mask0, target_mask0,
                     IF target_mask0 = None THEN DeriveMask(T(noise_mask0)) ELSE None)

\* output = apply_beamforming_vector(W_pca, mix); return output.T
\* (W_mvdr is computed and kept in the outcome; the vector applied is W_pca)
PcaMvdrApply(mix, nm, tm, derived, tpsd, npsd, W_pca, W_mvdr) ==
    IF W_mvdr.status # "ok"
    THEN Raised(W_mvdr.status, <<PSD, PSD, "get_pca_vector", "get_mvdr_vector">>,
                nm, tm, derived, tpsd, npsd, W_pca.value)
    ELSE Outcome("ok", T(apply_beamforming_vector(W_pca.value, mix)),
                 <<PSD, PSD, "get_pca_vector", "get_mvdr_vector", "apply_beamforming_vector">>,
                 nm, tm, derived, tpsd, npsd, W_pca.value, W_mvdr.value)

\* W_mvdr = get_mvdr_vector(W_pca, noise_psd_matrix)
PcaMvdrSolve(mix, nm, tm, derived, tpsd, npsd, W_pca) ==
    IF W_pca.status # "ok"
    THEN Raised(W_pca.status, <<PSD, PSD, "get_pca_vector">>, nm, tm, derived,
                tpsd, npsd, None)
    ELSE PcaMvdrApply(mix, nm, tm, derived, tpsd, npsd, W_pca,
                      get_mvdr_vector(W_pca.value, npsd))

\* the optional regularization of the noise PSD, then W_pca = get_pca_vector(target_psd_matrix)
PcaMvdrRegularize(mix, noise_mask0, target_mask0, derived, target, noise, regularization) ==
    PcaMvdrSolve(mix, AfterView(noise_mask0, noise), AfterView(target_mask0, target),
                 derived, target.psd, Regularize(noise.psd, regularization),
                 get_pca_vector(target.psd))

\* the two PSD estimates, the target one first
PcaMvdrEstimate(mix, noise_mask0, target_mask0, derived, regularization) ==
    PcaMvdrRegularize(mix, noise_mask0, target_mask0, derived,
        get_power_spectral_density_matrix(mix, UsedMask(target_mask0, derived), -2, -2, -1),
        get_power_spectral_density_matrix(mix, UsedMask(noise_mask0, derived), -2, -2, -1),
        regularization)

pca_mvdr_wrapper_on_masks(mix0, noise_mask0, target_mask0, regularization) ==
    IF BothMasksMissing(noise_mask0, target_mask0)
    THEN Raised("ValueError", <<>>, noise_mask0, target_mask0, None, None, None, None)
    ELSE IF noise_mask0 = None /\ target_mask0 = None
    THEN Raised("TypeError", <<>>, noise_mask0, target_mask0, None, None, None, None)
    ELSE PcaMvdrEstimate(T(mix0), noise_mask0, target_mask0,
                         DerivedMask(noise_mask0, target_mask0), regularization)


(***************************************************************************)
(* The inputs of the model.                                                *)
(***************************************************************************)
ObsPatterns == {"basis", "mixed", "generic"}

\* entry (bin f, sensor d, frame t) of the observation of a pattern
ObsEntry(pattern, f, d, t) ==
    CASE pattern = "basis" ->
            \* frame t of bin f is (1 + i) times a unit vector
            IF d = ((t + f - 2) % Sensors) + 1 THEN Cpx(1, 1) ELSE Zero
      [] pattern = "mixed" ->
            \* one frame of each bin is the first unit vector, the others are all ones
            IF t = ((f - 1) % Frames) + 1 THEN (IF d = 1 THEN One ELSE Zero) ELSE One
      [] pattern = "generic" ->
            Cpx(d - t, f + d * t - 2)

Obs(pattern) ==
    [shape |-> <<Bins, Sensors, Frames>>,
     data |-> Eval([ix \in Idx(<<Bins, Sensors, Frames>>) |->
                  ObsEntry(pattern, ix[1], ix[2], ix[3])]),
     dtype |-> "complex128"]

MaskVals == {Zero, Rat(1, 2), One}

\* row r rotated by k frames
Rotate(r, k) == Tup([t \in 1..Frames |-> r[((t - 1 + k) % Frames) + 1]])

\* a mask of shape (bins, frames): bin f holds the row rotated by f - 1
Mask2D(r, dtype) ==
    [shape |-> <<Bins, Frames>>,
     data |-> Eval([ix \in Idx(<<Bins, Frames>>) |-> Rotate(r, ix[1] - 1)[ix[2]]]),
     dtype |-> dtype]

\* a mask of shape (bins, sources, frames)
Mask3D(r) ==
    [shape |-> <<Bins, Sources, Frames>>,
     data |-> Eval([ix \in Idx(<<Bins, Sources, Frames>>) |->
                  Rotate(r, ix[1] + ix[2] - 2)[ix[3]]]),
     dtype |-> "float64"]

\* a mask of shape (sources, bins, frames), used with source_dim = 0
MaskSourceFirst(r) ==
    [shape |-> <<Sources, Bins, Frames>>,
     data |-> Eval([ix \in Idx(<<Sources, Bins, Frames>>) |->
                  Rotate(r, ix[1] + ix[2] - 2)[ix[3]]]),
     dtype |-> "float64"]

\* a row of faint values: 1e-8 in the first two frames, then zeros; the sums
\* of its slices lie between the two floors 1e-10 and 1e-6
FaintRow == Tup([t \in 1..Frames |-> IF t <= 2 THEN Rat(1, 100000000) ELSE Zero])

Rows == [1..Frames -> MaskVals] \cup {FaintRow}
BoolRows == [1..Frames -> {Zero, One}]

\* the masks handed to the PSD estimator, each with its source_dim argument
DirectMasks ==
    {<<None, -2>>}
    \cup {<<Mask2D(r, "float64"), -2>> : r \in Rows}
    \cup {<<Mask2D(r, "bool"), -2>> : r \in BoolRows}
    \cup {<<Mask3D(r), -2>> : r \in Rows}
    \cup {<<MaskSourceFirst(r), 0>> : r \in Rows}

\* A row of soft values whose complement, and the complement of whose
\* normalised form, both give noise PSDs with rational square roots on the
\* "basis" observation: 289/294, 1/6, then zeros.
SquareRow ==
    Tup([t \in 1..Frames |-> IF t = 1 THEN Rat(289, 294) ELSE IF t = 2 THEN Rat(1, 6) ELSE Zero])

\* The rows of the masks handed to the pipelines: k frames of 1/2 followed by
\* zeros (bin f holds the row rotated by f - 1), the row of ones and SquareRow.
PipeRows ==
    {Tup([t \in 1..Frames |-> IF t <= k THEN Rat(1, 2) ELSE Zero]) : k \in 0..Frames}
    \cup {Tup([t \in 1..Frames |-> One]), SquareRow}

\* a pipeline mask in the caller's layout (frames, bins)
PipeMask(r) == T(Mask2D(r, "float64"))

PipeMasks == {None} \cup {PipeMask(r) : r \in PipeRows}

\* the caller's mask objects as they were when a call was made
Given(mask_, noise_mask_, target_mask_) ==
    [mask |-> mask_, noise_mask |-> noise_mask_, target_mask |-> target_mask_]

\* the batch shapes: up to MaxBatchRank axes, each of length 1 or Bins
RECURSIVE BatchShapes(_)
BatchShapes(rank) ==
    IF rank = 0 THEN {<<>>}
    ELSE BatchShapes(rank - 1)
         \cup {<<b>> \o r : b \in {1, Bins}, r \in {x \in BatchShapes(rank - 1) : Len(x) = rank - 1}}

\* an observation of a shape (batch..., sensors, frames)
ObsOfShape(shape) ==
    [shape |-> shape,
     data |-> Eval([ix \in Idx(shape) |->
                  Cpx(ix[Len(shape) - 1] - ix[Len(shape)], Flat(ix, shape) % 3)]),
     dtype |-> "complex128"]

\* a soft mask of a shape, its values 1/2 and 1
MaskOfShape(shape) ==
    [shape |-> shape,
     data |-> Eval([ix \in Idx(shape) |-> Rat(1 + (Flat(ix, shape) % 2), 2)]),
     dtype |-> "float64"]

\* the masks (each with its source_dim) that fit an observation (batch..., d, t)
MasksFor(batch, t) ==
    {<<None, -2>>, <<MaskOfShape(batch \o <<t>>), -2>>}
    \cup {<<MaskOfShape(batch \o <<k, t>>), -2>> : k \in 1..Sources}
    \cup {<<MaskOfShape(<<k>> \o batch \o <<t>>), 0>> : k \in 1..Sources}

\* ATF vectors of shape (bins, sensors) and (sources, bins, sensors)
AtfPatterns == {"unit", "ones", "complex"}

AtfEntry(pattern, f, d) ==
    CASE pattern = "unit" -> IF d = 1 THEN One ELSE Zero
      [] pattern = "ones" -> One
      [] pattern = "complex" -> Cpx(d, f - d)

Atf(pattern, shape) ==
    [shape |-> shape,
     data |-> Eval([ix \in Idx(shape) |->
                  AtfEntry(pattern, ix[Len(shape) - 1], ix[Len(shape)])]),
     dtype |-> "complex128"]

Atfs ==
    {Atf(p, <<Bins, Sensors>>) : p \in AtfPatterns}
    \cup {Atf(p, <<Sources, Bins, Sensors>>) : p \in AtfPatterns}

\* square matrices of one bin, by name
MatrixKinds == {"identity", "hermitian", "asymmetric", "indefinite", "singular"}

MatrixEntry(kind, d, e) ==
    CASE kind = "identity" -> IF d = e THEN One ELSE Zero
      [] kind = "hermitian" ->
            IF d = e THEN Int2C(Sensors) ELSE IF d < e THEN Cpx(0, 1) ELSE Cpx(0, -1)
      [] kind = "asymmetric" -> IF d = e THEN Int2C(d) ELSE IF d < e THEN One ELSE Zero
      [] kind = "indefinite" -> IF d # e THEN Zero ELSE IF d % 2 = 1 THEN One ELSE Int2C(-1)
      [] kind = "singular" -> One

\* the pairs (target, noise) of diagonal matrices of one bin, by name
PairKinds == {"white", "scaled", "indefinite"}

TargetEntry(kind, d, e) ==
    IF d # e THEN Zero
    ELSE CASE kind = "white" -> Int2C(d)
           [] kind = "scaled" -> IF d = 1 THEN Int2C(8) ELSE One
           [] kind = "indefinite" -> Int2C(d)

NoiseEntry(kind, d, e) ==
    IF d # e THEN Zero
    ELSE CASE kind = "white" -> One
           [] kind = "scaled" -> IF d = 1 THEN Int2C(4) ELSE One
           [] kind = "indefinite" -> IF d = 1 THEN Int2C(-1) ELSE One

StackEntry(role, kind, d, e) ==
    CASE role = "target" -> TargetEntry(kind, d, e)
      [] role = "noise" -> NoiseEntry(kind, d, e)
      [] OTHER -> MatrixEntry(kind, d, e)

\* an array (bins, sensors, sensors): bin f holds the matrix of kinds[f]
Stack(kinds, role) ==
    [shape |-> <<Bins, Sensors, Sensors>>,
     data |-> Eval([ix \in Idx(<<Bins, Sensors, Sensors>>) |->
                      StackEntry(role, kinds[ix[1]], ix[2], ix[3])]),
     dtype |-> "complex128"]

NoCall ==
    [op |-> "none", opts |-> None, given |-> None] @@
    Outcome("none", None, <<>>, None, None, None, None, None, None, None)

InitPsd ==
    /\ observation \in {Obs(p) : p \in ObsPatterns}
    /\ \E m \in DirectMasks : mask = m[1] /\ source_dim = m[2]
    /\ noise_mask = None
    /\ target_mask = None

InitPipe ==
    /\ observation \in {Obs(p) : p \in ObsPatterns}
    /\ mask = None
    /\ source_dim = -2
    /\ noise_mask \in PipeMasks
    /\ target_mask \in PipeMasks

NoSolverInputs ==
    /\ atf_vector = None
    /\ target_psd_matrix = None
    /\ noise_psd_matrix = None
    /\ eig_fault = {}

\* the callers of the pipelines
Init ==
    /\ InitPipe
    /\ NoSolverInputs
    /\ last = NoCall

\* the callers of the PSD estimators
InitEstimator ==
    /\ InitPsd
    /\ NoSolverInputs
    /\ last = NoCall

\* observations and masks of every shape
InitShape ==
    /\ \E batch \in BatchShapes(MaxBatchRank), d \in 1..Sensors, t \in 1..Frames :
          /\ observation = ObsOfShape(batch \o <<d, t>>)
          /\ \E m \in MasksFor(batch, t) : mask = m[1] /\ source_dim = m[2]
    /\ noise_mask = None
    /\ target_mask = None
    /\ NoSolverInputs
    /\ last = NoCall

NoEstimatorInputs ==
    /\ observation = None
    /\ mask = None
    /\ source_dim = -2
    /\ noise_mask = None
    /\ target_mask = None

InitMvdr ==
    /\ atf_vector \in Atfs
    /\ noise_psd_matrix \in {Stack(kinds, "matrix") : kinds \in [1..Bins -> MatrixKinds]}
    /\ target_psd_matrix = None
    /\ eig_fault = {}

InitGev ==
    /\ atf_vector = None
    /\ \E kinds \in [1..Bins -> PairKinds] :
          /\ target_psd_matrix = Stack(kinds, "target")
          /\ noise_psd_matrix = Stack(kinds, "noise")
    /\ eig_fault \in SUBSET (1..Bins)

InitSolvers ==
    /\ NoEstimatorInputs
    /\ InitMvdr \/ InitGev
    /\ last = NoCall

(***************************************************************************)
(* The calls.                                                               *)
(***************************************************************************)
Pipelines == {"gev_wrapper_on_masks", "pca_wrapper_on_masks", "pca_mvdr_wrapper_on_masks"}

SolverInputsUnchanged ==
    UNCHANGED <<atf_vector, target_psd_matrix, noise_psd_matrix, eig_fault>>

\* get_power_spectral_density_matrix(observation, mask, source_dim=source_dim)
CallPsd ==
    LET r == get_power_spectral_density_matrix(observation, mask, -2, source_dim, -1)
    IN  /\ observation # None
        /\ last' = [op |-> PSD, opts |-> source_dim, weights |-> r.weights,
                    given |-> Given(mask, noise_mask, target_mask)] @@
                   Outcome("ok", r.psd, <<>>, noise_mask, target_mask,
                           None, None, None, None, None)
        /\ mask' = r.mask
        /\ UNCHANGED <<observation, source_dim, noise_mask, target_mask>>
        /\ SolverInputsUnchanged

\* get_power_spectral_density_matrix_old(observation, mask)
CallPsdOld ==
    LET r == get_power_spectral_density_matrix_old(observation, mask)
    IN  /\ observation # None
        /\ last' = [op |-> PSD_OLD, opts |-> None, weights |-> r.weights,
                    given |-> Given(mask, noise_mask, target_mask)] @@
                   Outcome(r.status, r.psd, <<>>, noise_mask, target_mask,
                           None, None, None, None, None)
        /\ mask' = r.mask
        /\ UNCHANGED <<observation, source_dim, noise_mask, target_mask>>
        /\ SolverInputsUnchanged

\* The caller's view of a finished pipeline call.  Every call ends: a call
\* whose solver result has no exact value ends with the status
\* "unrepresentable" and no recorded value (the code returns an output, or
\* raises the solver's LinAlgError), and by then the PSD estimates have
\* normalised the supplied masks in place like in every other call.
Finish(op, opts, r) ==
    /\ last' = [op |-> op, opts |-> opts,
                given |-> Given(mask, noise_mask, target_mask)] @@ r
    /\ noise_mask' = r.noise_mask
    /\ target_mask' = r.target_mask
    /\ UNCHANGED <<observation, mask, source_dim>>
    /\ SolverInputsUnchanged

\* gev_wrapper_on_masks(observation.T, noise_mask, target_mask, normalization)
CallGev ==
    /\ observation # None
    /\ \E normalization \in BOOLEAN :
          Finish("gev_wrapper_on_masks", normalization,
                 gev_wrapper_on_masks(T(observation), noise_mask, target_mask,
                                      normalization, eig_fault))

\* pca_wrapper_on_masks(observation.T, noise_mask, target_mask)
CallPca ==
    /\ observation # None
    /\ Finish("pca_wrapper_on_masks", None,
              pca_wrapper_on_masks(T(observation), noise_mask, target_mask))

\* pca_mvdr_wrapper_on_masks(observation.T, noise_mask, target_mask, regularization)
CallPcaMvdr ==
    /\ observation # None
    /\ \E regularization \in {None, One} :
          Finish("pca_mvdr_wrapper_on_masks",
                 IF regularization = None THEN <<>> ELSE <<regularization>>,
                 pca_mvdr_wrapper_on_masks(T(observation), noise_mask, target_mask,
                                           regularization))

Next == CallPsd \/ CallPsdOld \/ CallGev \/ CallPca \/ CallPcaMvdr

Spec == Init /\ [][Next]_vars

\* the same calls, made by a caller that holds a mask for the PSD estimators
SpecPsd == InitEstimator /\ [][Next]_vars

\* the PSD estimators on observations and masks of every shape
NextShape == CallPsd \/ CallPsdOld

SpecShape == InitShape /\ [][NextShape]_vars

\* get_mvdr_vector(atf_vector, noise_psd_matrix)
CallMvdr ==
    LET r == get_mvdr_vector(atf_vector, noise_psd_matrix)
    IN  /\ atf_vector # None
        /\ last' = [op |-> "get_mvdr_vector", opts |-> None, given |-> None] @@ r
        /\ UNCHANGED <<observation, mask, source_dim, noise_mask, target_mask>>
        /\ SolverInputsUnchanged

\* get_gev_vector(target_psd_matrix, noise_psd_matrix)
CallGevVector ==
    LET r == get_gev_vector(target_psd_matrix, noise_psd_matrix, eig_fault)
    IN  /\ target_psd_matrix # None
        /\ last' = [op |-> "get_gev_vector", opts |-> None, given |-> None] @@ r
        /\ UNCHANGED <<observation, mask, source_dim, noise_mask, target_mask>>
        /\ SolverInputsUnchanged

NextSolvers == CallMvdr \/ CallGevVector

\* the vector solvers called directly
SpecSolvers == InitSolvers /\ [][NextSolvers]_vars

(***************************************************************************)
(* Properties of the pipelines and of the PSD estimator.                   *)
(***************************************************************************)
OneMaskPipelines == {"gev_wrapper_on_masks", "pca_mvdr_wrapper_on_masks"}

\* C1: a call of any of the three pipelines with both noise_mask and
\* target_mask None ends in ValueError, whatever the mix and the other
\* options; no PSD estimation or solver call was made, no array was changed,
\* and no output is returned.
C1_BothMasksNoneRaises ==
    (/\ last.op \in Pipelines
     /\ last.given.noise_mask = None
     /\ last.given.target_mask = None)
    => /\ last.status = "ValueError"
       /\ last.steps = <<>>
       /\ last.value = None
       /\ noise_mask = None
       /\ target_mask = None
       /\ mask = last.given.mask

C1_Witness ==
    /\ last.op = "gev_wrapper_on_masks"
    /\ last.opts = TRUE
    /\ last.given.noise_mask = None
    /\ last.given.target_mask = None
    /\ last.status = "ValueError"
    /\ mask # None

\* C2: the caller's mask is unaffected by a call: after the PSD estimator
\* returns, every entry of a real-valued (non-boolean) mask it was given
\* equals its value before the call, and after a pipeline returns, every
\* entry of the noise mask and of the target mask it was given does.
C2_CallerMaskUnaffected ==
    /\ (/\ last.op = PSD
        /\ last.given.mask # None
        /\ last.given.mask.dtype # "bool") => mask = last.given.mask
    /\ last.op \in Pipelines =>
          /\ noise_mask = last.given.noise_mask
          /\ target_mask = last.given.target_mask

\* C3: no state is carried across calls: two successive calls of the PSD
\* estimator with the same observation and the same mask object return
\* equal PSD matrices, and two successive calls of gev_wrapper_on_masks or
\* pca_mvdr_wrapper_on_masks with the same mix, the same options and the
\* same single supplied mask object return equal outputs.
C3_SuccessiveCallsEqual ==
    [][(/\ last'.op = last.op
        /\ last'.opts = last.opts
        /\ last.status = "ok"
        /\ last'.status = "ok"
        /\ \/ last.op = PSD
           \/ /\ last.op \in OneMaskPipelines
              /\ (last.given.noise_mask = None) # (last.given.target_mask = None))
       => last'.value = last.value]_vars

\* C4: pca_mvdr_wrapper_on_masks returns the application of the MVDR
\* vector: with the target PSD and the (regularized) noise PSD it estimated,
\* its output equals
\* transpose(apply_beamforming_vector(get_mvdr_vector(get_pca_vector(target_psd), noise_psd), mix)).
C4_OutputAppliesMvdrVector ==
    (last.op = "pca_mvdr_wrapper_on_masks" /\ last.status = "ok")
    => last.value =
           T(apply_beamforming_vector(
                 get_mvdr_vector(get_pca_vector(last.target_psd).value,
                                 last.noise_psd).value,
                 observation))

\* (1/frames) * sum over t of observation[f, d, t] * conj(observation[f, e, t])
MeanOuter(obs) ==
    [shape |-> <<obs.shape[1], obs.shape[2], obs.shape[2]>>,
     data |-> Eval([ix \in Idx(<<obs.shape[1], obs.shape[2], obs.shape[2]>>) |->
         Div(SumSeq(Tup([t \in 1..obs.shape[3] |->
                 Mul(obs.data[<<ix[1], ix[2], t>>], Conj(obs.data[<<ix[1], ix[3], t>>]))])),
             Int2C(obs.shape[3]))]),
     dtype |-> "complex128"]

AllOnes(m) == m # None /\ Ndim(m) = 2 /\ \A ix \in DOMAIN m.data : m.data[ix] = One

\* C6: for an observation of shape (bins, sensors, frames), the PSD
\* estimated with an all-ones mask of shape (bins, frames) equals the PSD
\* estimated with mask None, and both equal (1/frames) * the sum over t of
\* observation[f, d, t] * conj(observation[f, e, t]).
C6_OnesMaskIsUnweighted ==
    (last.op = PSD /\ (last.given.mask = None \/ AllOnes(last.given.mask)))
    => /\ last.value = MeanOuter(observation)
       /\ last.value = get_power_spectral_density_matrix(observation, None, -2, -2, -1).psd

C6_Witness ==
    /\ last.op = PSD
    /\ AllOnes(last.given.mask)
    /\ last.given.mask.dtype = "float64"
    /\ observation = Obs("generic")
    /\ last.value = MeanOuter(observation)

\* the index with its last two entries exchanged
SwapLast(ix) ==
    SubSeq(ix, 1, Len(ix) - 2) \o <<ix[Len(ix)], ix[Len(ix) - 1]>>

\* C7: the result P of the PSD estimator is Hermitian on its last two axes,
\* P[..., d, e] = conj(P[..., e, d]), for every mask (None, without or with
\* a source axis); in particular its diagonal entries are real.
C7_PsdHermitian ==
    last.op = PSD =>
        \A ix \in DOMAIN last.value.data :
            last.value.data[ix] = Conj(last.value.data[SwapLast(ix)])

C7_Witness ==
    /\ last.op = PSD
    /\ Ndim(last.value) = 4
    /\ \E ix \in DOMAIN last.value.data : ~IsReal(last.value.data[ix])

\* the sum of arr along its last axis, through the entry at index ix
SliceSum(arr, ix) ==
    SumSeq(Tup([t \in 1..arr.shape[Len(ix)] |-> arr.data[Tup([ix EXCEPT ![Len(ix)] = t])]]))

\* C10: with a mask given, the weights used in the PSD sum are
\* mask / max(S, eps), S the sum of the mask along time of the slice: where
\* S >= eps the weights are mask / S and sum to 1 along time; where S < eps
\* they are mask / eps, finite, and the PSD is finite.  For a mask without a
\* source axis the PSD is the sum of the outer products under these weights.
C10_MaskNormalization ==
    (last.op = PSD /\ last.given.mask # None)
    => /\ \A ix \in DOMAIN last.given.mask.data :
             IF GeqNegPow10(SliceSum(last.given.mask, ix), PsdFloorExp)
             THEN /\ last.weights.data[ix] =
                         Div(last.given.mask.data[ix], SliceSum(last.given.mask, ix))
                  /\ SliceSum(last.weights, ix) = One
             ELSE /\ last.weights.data[ix] =
                         DivNegPow10(last.given.mask.data[ix], PsdFloorExp)
                  /\ ~IsNaN(last.weights.data[ix])
       /\ \A ix \in DOMAIN last.value.data : ~IsNaN(last.value.data[ix])
       /\ Ndim(last.given.mask) = 2 =>
             \A ix \in DOMAIN last.value.data :
                 last.value.data[ix] =
                     SumSeq(Tup([t \in 1..Frames |->
                         Mul(last.weights.data[<<ix[1], t>>],
                             Mul(observation.data[<<ix[1], ix[2], t>>],
                                 Conj(observation.data[<<ix[1], ix[3], t>>])))]))

C10_Witness ==
    /\ last.op = PSD
    /\ last.given.mask # None
    /\ last.given.mask.dtype = "float64"
    /\ \A ix \in DOMAIN last.given.mask.data : IsZero(last.given.mask.data[ix])
    /\ \A ix \in DOMAIN last.weights.data : IsZero(last.weights.data[ix])


(***************************************************************************)
(* The shape of the PSD estimate (specification SpecShape).                *)
(***************************************************************************)
\* the batch axes of an observation (batch..., sensors, frames)
BatchOf(obs) == SubSeq(obs.shape, 1, Ndim(obs) - 2)

\* C5: the output shape of the PSD estimator, for an observation
\* (B..., D, T): with mask None or a mask (B..., T) it is (B..., D, D); with
\* a mask (B..., K, T) and the default axes it is (B..., K, D, D); with a
\* mask (K, B..., T) and source_dim = 0 the source axis is rolled to the
\* front, (K, B..., D, D).  The entries of the output are those of that shape.
C5_OutputShape ==
    last.op = PSD =>
        /\ DOMAIN last.value.data = Idx(last.value.shape)
        /\ last.value.shape =
              IF last.given.mask = None
              THEN BatchOf(observation) \o <<observation.shape[Ndim(observation) - 1],
                                             observation.shape[Ndim(observation) - 1]>>
              ELSE IF last.given.mask.shape
                        = BatchOf(observation) \o <<observation.shape[Ndim(observation)]>>
              THEN BatchOf(observation) \o <<observation.shape[Ndim(observation) - 1],
                                             observation.shape[Ndim(observation) - 1]>>
              ELSE IF last.opts = -2
              THEN BatchOf(observation)
                   \o <<last.given.mask.shape[Ndim(observation) - 1],
                        observation.shape[Ndim(observation) - 1],
                        observation.shape[Ndim(observation) - 1]>>
              ELSE <<last.given.mask.shape[1]>> \o BatchOf(observation)
                   \o <<observation.shape[Ndim(observation) - 1],
                        observation.shape[Ndim(observation) - 1]>>

C5_Witness ==
    /\ last.op = PSD
    /\ last.opts = 0
    /\ observation.shape = <<1, Bins, Sensors, Frames>>
    /\ last.given.mask.shape = <<Sources, 1, Bins, Frames>>
    /\ last.value.shape = <<Sources, 1, Bins, Sensors, Sensors>>

(***************************************************************************)
(* The vector solvers (specification SpecSolvers).                         *)
(***************************************************************************)
\* entry (d, e) of (N + conj-transpose(N)) / 2 in bin f
SymEntry(N, f, d, e) ==
    Mul(Rat(1, 2), Add(N.data[<<f, d, e>>], Conj(N.data[<<f, e, d>>])))

\* C8: where the solve of sym(N) x = a succeeded and conj(a) . x is not
\* zero, the vector w of get_mvdr_vector(a, N) is distortionless, the sum
\* over d of conj(a[..., f, d]) * w[..., f, d] is 1 for every leading index
\* and bin, and w is x / (conj(a) . x) for the solution x of sym(N) x = a,
\* sym(N) = (N + conj-transpose(N)) / 2.
C8_MvdrDistortionless ==
    (last.op = "get_mvdr_vector" /\ last.status = "ok")
    => \A lead \in DOMAIN last.denominator :
          ~IsZero(last.denominator[lead]) =>
             /\ SumSeq(Tup([d \in 1..Sensors |->
                    Mul(Conj(atf_vector.data[lead \o <<d>>]),
                        last.value.data[lead \o <<d>>])])) = One
             /\ \A d \in 1..Sensors :
                    SumSeq(Tup([e \in 1..Sensors |->
                        Mul(SymEntry(noise_psd_matrix, lead[Len(lead)], d, e),
                            Mul(last.value.data[lead \o <<e>>],
                                last.denominator[lead]))]))
                    = atf_vector.data[lead \o <<d>>]

C8_Witness ==
    /\ last.op = "get_mvdr_vector"
    /\ last.status = "ok"
    /\ Ndim(atf_vector) = 3
    /\ \E ix \in DOMAIN noise_psd_matrix.data :
          noise_psd_matrix.data[ix] # Conj(noise_psd_matrix.data[SwapLast(ix)])
    /\ \A lead \in DOMAIN last.denominator :
          ~IsZero(last.denominator[lead]) /\ last.denominator[lead] # One

\* the solver calls made for bin f, in order
CallsOf(f) == SelectSeq(last.calls, LAMBDA c : c[1] = f)

\* the outcome of the Hermitian solver and of the general solver on bin f
HermitianOutcome(f) ==
    ScipyEigh(MatAt(target_psd_matrix, <<f>>), MatAt(noise_psd_matrix, <<f>>))

GeneralOutcome(f) ==
    ScipyEig(MatAt(target_psd_matrix, <<f>>), MatAt(noise_psd_matrix, <<f>>), f \in eig_fault)

FallsBack(f) == HermitianOutcome(f).status = "LinAlgError"

OutcomeUsed(f) == IF FallsBack(f) THEN GeneralOutcome(f) ELSE HermitianOutcome(f)

\* the bins in which both solvers fail
FailingBins == {f \in 1..Bins : OutcomeUsed(f).status # "ok"}

\* v is a column of the outcome whose eigenvalue is largest
IsPrincipal(v, outcome) ==
    \E k \in 1..Len(outcome.eigenvals) :
        /\ \A j \in 1..Len(outcome.eigenvals) :
              ~LessLex(outcome.eigenvals[k], outcome.eigenvals[j])
        /\ v = outcome.eigenvecs[k]

\* C9: in every bin get_gev_vector calls the Hermitian solver first and the
\* general solver only if that call raised a linear-algebra error, once, on
\* the same pair; if the general solver fails too the error reaches the
\* caller and no vector array is returned; the calls and the vector of a bin
\* depend on that bin's pair only; the vector stored is the eigenvector at
\* the largest returned eigenvalue.
C9_GevFallbackProtocol ==
    last.op = "get_gev_vector" =>
        /\ \A f \in 1..Bins :
              CallsOf(f) =
                  IF \E g \in FailingBins : g < f THEN <<>>
                  ELSE IF FallsBack(f) THEN <<<<f, "eigh">>, <<f, "eig">>>>
                  ELSE <<<<f, "eigh">>>>
        /\ FailingBins = {} =>
              /\ last.status = "ok"
              /\ \A f \in 1..Bins :
                    IsPrincipal(VecAt(last.value, <<f>>), OutcomeUsed(f))
        /\ FailingBins # {} =>
              /\ last.status = "LinAlgError"
              /\ last.value = None

C9_Witness ==
    /\ last.op = "get_gev_vector"
    /\ last.status = "ok"
    /\ FallsBack(1)
    /\ ~FallsBack(Bins)
    /\ CallsOf(1) = <<<<1, "eigh">>, <<1, "eig">>>>
    /\ CallsOf(Bins) = <<<<Bins, "eigh">>>>

=============================================================================
